---- MODULE Spec2Model ----
(***************************************************************************)
(* Value types of src/cuda/api/types.h: dimensions_t, compute_capability_t,*)
(* launch_configuration_t and the enumerations with aliases.               *)
(*                                                                         *)
(* The header holds pure functions only.  The state of the model is the    *)
(* last call made on these types: the function called (fn), its arguments  *)
(* (args) and what it returned (ret).                                      *)
(*                                                                         *)
(* TLC's integers are 32-bit signed, so a C++ `unsigned` (32 bits) and a   *)
(* `size_t` (64 bits, the LP64 hosts the CUDA toolkit targets) are words:  *)
(* sequences of bytes, least significant byte first.  Arithmetic on words  *)
(* is the arithmetic of the C++ type, modulo 2^(8 * length).               *)
(***************************************************************************)
EXTENDS Integers, Sequences, FiniteSets, TLC

VARIABLES fn, args, ret

vars == <<fn, args, ret>>

-----------------------------------------------------------------------------
(* Bounds of the inputs.                                                   *)

\* dimension components 0..MaxDim are tried, beside the boundary values
MaxDim == 2
\* compute-capability fields 0..MaxField are tried, beside the boundary values
MaxField == 2
\* shared-memory sizes 0..MaxShared are tried, beside 65535
MaxShared == 1

-----------------------------------------------------------------------------
(* Machine words.                                                          *)

\* one byte holds 0 .. Radix - 1
Radix == 2^8

\* sizeof(unsigned): grid_dimension_t, the fields of dim3 and of
\* compute_capability_t
UnsignedBytes == 4

\* sizeof(size_t): the return type of empty() and volume()
SizeTBytes == 8

\* the word of `len` bytes holding the number n (modulo 2^(8 * len))
RECURSIVE ToWord(_, _)
ToWord(n, len) ==
    IF len = 0 THEN <<>>
    ELSE <<n % Radix>> \o ToWord(n \div Radix, len - 1)

\* an unsigned literal of the source
U(n) == ToWord(n, UnsignedBytes)

\* integral conversion between unsigned types: zero-extend or truncate
Convert(w, len) == [i \in 1..len |-> IF i <= Len(w) THEN w[i] ELSE 0]

IsZero(w) == \A i \in 1..Len(w) : w[i] = 0

\* a + b of two words of one type, wrapping
RECURSIVE AddCarry(_, _, _)
AddCarry(a, b, carry) ==
    IF a = <<>> THEN <<>>
    ELSE LET s == Head(a) + Head(b) + carry
         IN  <<s % Radix>> \o AddCarry(Tail(a), Tail(b), s \div Radix)

WordAdd(a, b) == AddCarry(a, b, 0)

\* a * k for one byte k, wrapping
RECURSIVE ScaleCarry(_, _, _)
ScaleCarry(a, k, carry) ==
    IF a = <<>> THEN <<>>
    ELSE LET p == Head(a) * k + carry
         IN  <<p % Radix>> \o ScaleCarry(Tail(a), k, p \div Radix)

\* a * b of two words of one type, wrapping: a*b0 + 256 * (a * (b div 256))
RECURSIVE WordMul(_, _)
WordMul(a, b) ==
    IF b = <<>> THEN <<>>
    ELSE WordAdd(ScaleCarry(a, Head(b), 0),
                 <<0>> \o WordMul(SubSeq(a, 1, Len(a) - 1), Tail(b)))

\* quotient and remainder of a word by a small divisor k (long division from
\* the most significant byte)
RECURSIVE DivRem(_, _)
DivRem(a, k) ==
    IF a = <<>> THEN [q |-> <<>>, r |-> 0]
    ELSE LET hi  == DivRem(Tail(a), k)
             cur == hi.r * Radix + Head(a)
         IN  [q |-> <<cur \div k>> \o hi.q, r |-> cur % k]

WordDiv(a, k) == DivRem(a, k).q
WordMod(a, k) == ToWord(DivRem(a, k).r, Len(a))

\* a < b of two words of one type
RECURSIVE WordLess(_, _)
WordLess(a, b) ==
    IF a = <<>> THEN FALSE
    ELSE LET n == Len(a)
         IN  IF a[n] # b[n] THEN a[n] < b[n]
             ELSE WordLess(SubSeq(a, 1, n - 1), SubSeq(b, 1, n - 1))

WordGreater(a, b) == WordLess(b, a)
WordLessEq(a, b) == ~WordLess(b, a)
WordGreaterEq(a, b) == ~WordLess(a, b)

\* bool to integer: true is 1, false is 0
BoolToInt(b) == IF b THEN 1 ELSE 0

-----------------------------------------------------------------------------
(* dimensions_t                                                            *)

\* the largest unsigned, 0xFFFFFFFF
UnsignedMax == [i \in 1..UnsignedBytes |-> Radix - 1]

\* the components tried: 0..MaxDim, 5, 0xFFFF, 0x10000 and 0xFFFFFFFF
DimValues ==
    {U(n) : n \in 0..MaxDim} \cup {U(5), U(65535), U(65536), UnsignedMax}

Dimensions == [x : DimValues, y : DimValues, z : DimValues]

\* mutant: `and` for `or`
empty_all_zero(d) ==
    ToWord(BoolToInt(d.x = U(0) /\ d.y = U(0) /\ d.z = U(0)), SizeTBytes)

\* size_t empty() const
empty(d) ==
    ToWord(BoolToInt(d.x = U(0) \/ d.y = U(0) \/ d.z = U(0)), SizeTBytes)

\* mutant: the product is taken in unsigned and widened afterwards
volume_unsigned_product(d) ==
    Convert(WordMul(WordMul(d.x, d.y), d.z), SizeTBytes)

\* mutant: only the last multiplication is done in size_t
volume_late_cast(d) ==
    WordMul(Convert(WordMul(d.x, d.y), SizeTBytes), Convert(d.z, SizeTBytes))

\* size_t volume() const: (size_t) x * y * z.  The cast binds to x, and y and
\* z are converted to size_t by the usual arithmetic conversions: both
\* multiplications are size_t multiplications.
volume(d) ==
    WordMul(WordMul(Convert(d.x, SizeTBytes), Convert(d.y, SizeTBytes)),
            Convert(d.z, SizeTBytes))

\* mutant: > 0 for > 1
dimensionality_nonzero(d) ==
    ( BoolToInt(WordGreater(d.z, U(0))) + BoolToInt(WordGreater(d.y, U(0)))
      + BoolToInt(WordGreater(d.x, U(0))) ) % Radix

\* unsigned char dimensionality() const
dimensionality(d) ==
    ( BoolToInt(WordGreater(d.z, U(1))) + BoolToInt(WordGreater(d.y, U(1)))
      + BoolToInt(WordGreater(d.x, U(1))) ) % Radix

\* bool operator==(const dim3&, const dim3&)
dim3_eq(lhs, rhs) == lhs.x = rhs.x /\ lhs.y = rhs.y /\ lhs.z = rhs.z

\* bool operator==(const dimensions_t&, const dimensions_t&)
dimensions_eq(lhs, rhs) == dim3_eq(lhs, rhs)

-----------------------------------------------------------------------------
(* compute_capability_t                                                    *)

\* the fields tried in the calls on one compute capability: 0..MaxField,
\* the single digits 5, 7, 8, 9, beyond one digit 10 and 15, the limits of
\* is_valid 9998 and 9999, and around the largest major whose combined
\* number fits an unsigned, 429496729 and 429496730, and 0xFFFFFFFF
FieldValues ==
    {U(n) : n \in 0..MaxField}
    \cup {U(5), U(7), U(8), U(9), U(10), U(15), U(9998), U(9999),
          U(429496729), U(429496730), UnsignedMax}

ComputeCapabilities == [major : FieldValues, minor : FieldValues]

\* the fields tried in the calls comparing two or three compute capabilities
OrderValues == {U(n) : n \in 0..MaxField} \cup {U(9998), UnsignedMax}

OrderCapabilities == [major : OrderValues, minor : OrderValues]

\* unsigned as_combined_number() const
as_combined_number(cc) == WordAdd(WordMul(cc.major, U(10)), cc.minor)

\* mutant: the fields are swapped
from_combined_number_swapped(combined) ==
    [major |-> WordMod(combined, 10), minor |-> WordDiv(combined, 10)]

\* static const compute_capability_t from_combined_number(unsigned combined)
from_combined_number(combined) ==
    [major |-> WordDiv(combined, 10), minor |-> WordMod(combined, 10)]

\* mutant: 9999 is let through
is_valid_inclusive(cc) ==
    /\ WordGreater(cc.major, U(0))
    /\ WordLessEq(cc.major, U(9999))
    /\ WordGreater(cc.minor, U(0))
    /\ WordLessEq(cc.minor, U(9999))

\* bool is_valid() const
is_valid(cc) ==
    /\ WordGreater(cc.major, U(0))
    /\ WordLess(cc.major, U(9999))
    /\ WordGreater(cc.minor, U(0))
    /\ WordLess(cc.minor, U(9999))

\* bool operator ==(const compute_capability_t&, const compute_capability_t&)
cc_eq(lhs, rhs) == lhs.major = rhs.major /\ lhs.minor = rhs.minor

\* mutant: `and` for `or`
cc_ne_both(lhs, rhs) == lhs.major # rhs.major /\ lhs.minor # rhs.minor

\* bool operator !=(const compute_capability_t&, const compute_capability_t&)
cc_ne(lhs, rhs) == lhs.major # rhs.major \/ lhs.minor # rhs.minor

\* mutant: the minors are compared whatever the majors
cc_lt_minor_unguarded(lhs, rhs) ==
    WordLess(lhs.major, rhs.major) \/ WordLess(lhs.minor, rhs.minor)

\* bool operator <(const compute_capability_t&, const compute_capability_t&)
cc_lt(lhs, rhs) ==
    \/ WordLess(lhs.major, rhs.major)
    \/ (lhs.major = rhs.major /\ WordLess(lhs.minor, rhs.minor))

\* bool operator <=(const compute_capability_t&, const compute_capability_t&)
cc_le(lhs, rhs) ==
    \/ WordLess(lhs.major, rhs.major)
    \/ (lhs.major = rhs.major /\ WordLessEq(lhs.minor, rhs.minor))

\* bool operator >(const compute_capability_t&, const compute_capability_t&)
cc_gt(lhs, rhs) ==
    \/ WordGreater(lhs.major, rhs.major)
    \/ (lhs.major = rhs.major /\ WordGreater(lhs.minor, rhs.minor))

\* bool operator >=(const compute_capability_t&, const compute_capability_t&)
cc_ge(lhs, rhs) ==
    \/ WordGreater(lhs.major, rhs.major)
    \/ (lhs.major = rhs.major /\ WordGreaterEq(lhs.minor, rhs.minor))

-----------------------------------------------------------------------------
(* launch_configuration_t                                                  *)

\* sizeof(shared_memory_size_t), an unsigned short
SharedMemorySizeBytes == 2

\* the largest shared_memory_size_t, 0xFFFF
SharedMemorySizeMax == [i \in 1..SharedMemorySizeBytes |-> Radix - 1]

SharedMemorySizes ==
    {ToWord(n, SharedMemorySizeBytes) : n \in 0..MaxShared}
    \cup {SharedMemorySizeMax}

\* the grid and block dimensions tried: each differs from (1, 1, 1) in at
\* most one component
LaunchDimensions ==
    { [x |-> U(1), y |-> U(1), z |-> U(1)], [x |-> U(2), y |-> U(1), z |-> U(1)],
      [x |-> U(1), y |-> U(2), z |-> U(1)], [x |-> U(1), y |-> U(1), z |-> U(2)] }

\* the aggregate { grid_dimensions, block_dimensions, size }
launch_configuration_t(grid_dimensions, block_dimensions, size) ==
    [ grid_dimensions            |-> grid_dimensions,
      block_dimensions           |-> block_dimensions,
      dynamic_shared_memory_size |-> size ]

\* launch_configuration_t make_launch_config(grid_dimensions,
\*     block_dimensions, dynamic_shared_memory_size)
make_launch_config(grid_dimensions, block_dimensions, size) ==
    launch_configuration_t(grid_dimensions, block_dimensions, size)

\* make_launch_config with dynamic_shared_memory_size left out: = 0
make_launch_config_default(grid_dimensions, block_dimensions) ==
    make_launch_config(grid_dimensions, block_dimensions,
                       ToWord(0, SharedMemorySizeBytes))

\* mutant: the shared-memory sizes are not compared
launch_configuration_eq_dims_only(lhs, rhs) ==
    /\ dimensions_eq(lhs.grid_dimensions, rhs.grid_dimensions)
    /\ dimensions_eq(lhs.block_dimensions, rhs.block_dimensions)

\* bool operator==(const launch_configuration_t, const launch_configuration_t&)
launch_configuration_eq(lhs, rhs) ==
    /\ dimensions_eq(lhs.grid_dimensions, rhs.grid_dimensions)
    /\ dimensions_eq(lhs.block_dimensions, rhs.block_dimensions)
    /\ lhs.dynamic_shared_memory_size = rhs.dynamic_shared_memory_size

\* the ways to construct a launch configuration: make_launch_config without
\* and with the size, and the aggregate
Constructions ==
    [path : {"make_launch_config_default"},
     grid : LaunchDimensions, block : LaunchDimensions]
    \cup [path : {"make_launch_config", "aggregate"},
          grid : LaunchDimensions, block : LaunchDimensions,
          size : SharedMemorySizes]

Construct(c) ==
    CASE c.path = "make_launch_config_default" ->
             make_launch_config_default(c.grid, c.block)
      [] c.path = "make_launch_config" ->
             make_launch_config(c.grid, c.block, c.size)
      [] c.path = "aggregate" ->
             launch_configuration_t(c.grid, c.block, c.size)

-----------------------------------------------------------------------------
(* The enumerations with aliases.  An enumeration is the sequence of its   *)
(* enumerators as declared: an enumerator is initialised by a constant, by *)
(* an enumerator declared before it, or not at all.                        *)

\* enum cudaFuncCache of the CUDA runtime's driver_types.h
cudaFuncCachePreferNone == 0
cudaFuncCachePreferShared == 1
cudaFuncCachePreferL1 == 2
cudaFuncCachePreferEqual == 3

Constant(name, value) == [name |-> name, kind |-> "constant", value |-> value]
Alias(name, of) == [name |-> name, kind |-> "enumerator", of |-> of]
Implicit(name) == [name |-> name, kind |-> "implicit"]

multiprocessor_cache_preference_t ==
    << Constant("no_preference", cudaFuncCachePreferNone),
       Constant("equal_l1_and_shared_memory", cudaFuncCachePreferEqual),
       Constant("prefer_shared_memory_over_l1", cudaFuncCachePreferShared),
       Constant("prefer_l1_over_shared_memory", cudaFuncCachePreferL1),
       Alias("none", "no_preference"),
       Alias("equal", "equal_l1_and_shared_memory"),
       Alias("prefer_shared", "prefer_shared_memory_over_l1"),
       Alias("prefer_l1", "prefer_l1_over_shared_memory") >>

synchronicity_t ==
    << Constant("asynchronous", BoolToInt(FALSE)),
       Constant("synchronous", BoolToInt(TRUE)),
       Alias("sync", "synchronous"),
       Alias("async", "asynchronous") >>

endianness_t ==
    << Implicit("big"), Alias("big_endian", "big"),
       Implicit("little"), Alias("little_endian", "little") >>

Enumerations ==
    [ multiprocessor_cache_preference_t |-> multiprocessor_cache_preference_t,
      synchronicity_t |-> synchronicity_t,
      endianness_t |-> endianness_t ]

Enumerators(enum) == {enum[i].name : i \in 1..Len(enum)}

IndexOf(enum, name) == CHOOSE i \in 1..Len(enum) : enum[i].name = name

\* mutant: an initialiser naming an enumerator is not read, the enumerator
\* is numbered after the one before it
RECURSIVE EnumeratorValueUninitialised(_, _)
EnumeratorValueUninitialised(enum, i) ==
    IF enum[i].kind = "constant" THEN enum[i].value
    ELSE IF i = 1 THEN 0
    ELSE EnumeratorValueUninitialised(enum, i - 1) + 1

\* the value of the i-th enumerator: its initialiser, or for the first 0,
\* or one more than the enumerator before it
RECURSIVE EnumeratorValue(_, _)
EnumeratorValue(enum, i) ==
    IF enum[i].kind = "constant" THEN enum[i].value
    ELSE IF enum[i].kind = "enumerator"
         THEN EnumeratorValue(enum, IndexOf(enum, enum[i].of))
    ELSE IF i = 1 THEN 0
    ELSE EnumeratorValue(enum, i - 1) + 1

\* static_cast to the underlying type of the enumerator `name`
underlying(enum, name) == EnumeratorValue(enum, IndexOf(enum, name))

-----------------------------------------------------------------------------
(* The calls.  A call is made when none is pending, and Return hands the   *)
(* result to the caller.                                                   *)

Init ==
    /\ fn = "none"
    /\ args = <<>>
    /\ ret = <<>>

CallEmpty ==
    /\ fn = "none"
    /\ \E d \in Dimensions :
        /\ fn' = "empty"
        /\ args' = <<d>>
        /\ ret' = empty(d)

CallVolume ==
    /\ fn = "none"
    /\ \E d \in Dimensions :
        /\ fn' = "volume"
        /\ args' = <<d>>
        /\ ret' = volume(d)

CallDimensionality ==
    /\ fn = "none"
    /\ \E d \in Dimensions :
        /\ fn' = "dimensionality"
        /\ args' = <<d>>
        /\ ret' = dimensionality(d)

CallIsValid ==
    /\ fn = "none"
    /\ \E cc \in ComputeCapabilities :
        /\ fn' = "is_valid"
        /\ args' = <<cc>>
        /\ ret' = is_valid(cc)

\* from_combined_number(cc.as_combined_number())
CallRoundTrip ==
    /\ fn = "none"
    /\ \E cc \in ComputeCapabilities :
        /\ fn' = "round_trip"
        /\ args' = <<cc>>
        /\ ret' = [ combined |-> as_combined_number(cc),
                    back     |-> from_combined_number(as_combined_number(cc)) ]

\* the six comparisons of a with b, and < and <= of b with a
CallCompare ==
    /\ fn = "none"
    /\ \E a, b \in OrderCapabilities :
        /\ fn' = "compare"
        /\ args' = <<a, b>>
        /\ ret' = [ eq |-> cc_eq(a, b), ne |-> cc_ne(a, b),
                    lt |-> cc_lt(a, b), le |-> cc_le(a, b),
                    gt |-> cc_gt(a, b), ge |-> cc_ge(a, b),
                    lt_ba |-> cc_lt(b, a), le_ba |-> cc_le(b, a) ]

\* operator< among three compute capabilities, and == of the first two
CallOrder ==
    /\ fn = "none"
    /\ \E a, b, c \in OrderCapabilities :
        /\ fn' = "order"
        /\ args' = <<a, b, c>>
        /\ ret' = [ aa |-> cc_lt(a, a), ab |-> cc_lt(a, b),
                    ba |-> cc_lt(b, a), bc |-> cc_lt(b, c),
                    ac |-> cc_lt(a, c), eq_ab |-> cc_eq(a, b) ]

\* operator== of two launch configurations, each constructed one way
CallLaunchConfigurationEq ==
    /\ fn = "none"
    /\ \E l, r \in Constructions :
        /\ fn' = "launch_configuration_eq"
        /\ args' = <<l, r>>
        /\ ret' = launch_configuration_eq(Construct(l), Construct(r))

\* the underlying values of two enumerators of one enumeration
CallUnderlying ==
    /\ fn = "none"
    /\ \E e \in DOMAIN Enumerations :
         \E n1, n2 \in Enumerators(Enumerations[e]) :
            /\ fn' = "underlying"
            /\ args' = <<e, n1, n2>>
            /\ ret' = << underlying(Enumerations[e], n1),
                         underlying(Enumerations[e], n2) >>

Return ==
    /\ fn # "none"
    /\ fn' = "none"
    /\ args' = <<>>
    /\ ret' = <<>>

Next ==
    \/ CallEmpty
    \/ CallVolume
    \/ CallDimensionality
    \/ CallIsValid
    \/ CallRoundTrip
    \/ CallCompare
    \/ CallOrder
    \/ CallLaunchConfigurationEq
    \/ CallUnderlying
    \/ Return

Spec == Init /\ [][Next]_vars

-----------------------------------------------------------------------------
(* The exact values the claims compare with.  Nothing wraps here: the       *)
(* words are wide enough for the mathematical result.                      *)

\* a capability or a dimension of the inputs
CC(major, minor) == [major |-> U(major), minor |-> U(minor)]
Dim(x, y, z) == [x |-> U(x), y |-> U(y), z |-> U(z)]

\* the word holds a value below 2^(8 * len)
Fits(w, len) == Convert(Convert(w, len), Len(w)) = w

\* major * 10 + minor, at most 11 * (2^32 - 1) < 2^64
ExactCombined(cc) ==
    WordAdd(WordMul(Convert(cc.major, SizeTBytes), ToWord(10, SizeTBytes)),
            Convert(cc.minor, SizeTBytes))

\* x * y * z, below 2^96
ExactProduct(d) ==
    LET wide == 3 * UnsignedBytes
    IN  WordMul(WordMul(Convert(d.x, wide), Convert(d.y, wide)),
                Convert(d.z, wide))

\* (major, minor) as the number major * 2^32 + minor: its order is the
\* lexicographic order of the pairs
Key(cc) == cc.minor \o cc.major

-----------------------------------------------------------------------------
(* C1 as stated: for every compute capability with minor < 10, whatever    *)
(* the major, from_combined_number(as_combined_number(cc)) is cc.          *)
C1_RoundTripAnyMajor ==
    (fn = "round_trip" /\ WordLess(args[1].minor, U(10)))
        => ret.back = args[1]

(* C1 as amended: for every compute capability with minor < 10 and         *)
(* major * 10 + minor below 2^32, from_combined_number(as_combined_number( *)
(* cc)) is cc, field for field.                                            *)
C1_RoundTrip ==
    ( /\ fn = "round_trip"
      /\ WordLess(args[1].minor, U(10))
      /\ Fits(ExactCombined(args[1]), UnsignedBytes) )
        => /\ ret.back.major = args[1].major
           /\ ret.back.minor = args[1].minor

\* (429496729, 5), the largest capability that fits: 0xFFFFFFFF and back
C1_Witness ==
    /\ fn = "round_trip"
    /\ args = << CC(429496729, 5) >>
    /\ ret.combined = UnsignedMax
    /\ ret.back = CC(429496729, 5)

(* C2: whenever the product x * y * z is below 2^64, volume() returns      *)
(* exactly that product.                                                   *)
C2_VolumeExact ==
    (fn = "volume" /\ Fits(ExactProduct(args[1]), SizeTBytes))
        => ret = Convert(ExactProduct(args[1]), SizeTBytes)

\* x = y = z = 0xFFFF: 0xFFFD0002FFFF, a product beyond 2^32
C2_Witness ==
    /\ fn = "volume"
    /\ args = << Dim(65535, 65535, 65535) >>
    /\ ret = <<255, 255, 2, 0, 253, 255, 0, 0>>

(* C3: operator< on compute capabilities is the lexicographic order of     *)
(* (major, minor), irreflexive, transitive and trichotomous: exactly one   *)
(* of a < b, a == b, b < a.                                                *)
C3_StrictTotalOrder ==
    fn = "order" =>
        /\ ret.ab = WordLess(Key(args[1]), Key(args[2]))
        /\ ~ret.aa
        /\ (ret.ab /\ ret.bc) => ret.ac
        /\ BoolToInt(ret.ab) + BoolToInt(ret.eq_ab) + BoolToInt(ret.ba) = 1

\* (1, 2) < (2, 0) < (2, 1): the majors decide against the minors
C3_Witness ==
    /\ fn = "order"
    /\ args = << CC(1, 2), CC(2, 0), CC(2, 1) >>
    /\ ret.ab /\ ret.bc /\ ret.ac /\ ~ret.ba /\ ~ret.eq_ab

(* C4: is_valid() is true exactly when 1 <= major <= 9998 and              *)
(* 1 <= minor <= 9998.                                                     *)
C4_IsValid ==
    fn = "is_valid" =>
        ( ret <=> /\ WordLessEq(U(1), args[1].major)
                  /\ WordLessEq(args[1].major, U(9998))
                  /\ WordLessEq(U(1), args[1].minor)
                  /\ WordLessEq(args[1].minor, U(9998)) )

C4_Witness ==
    /\ fn = "is_valid"
    /\ args = << CC(9998, 9998) >>
    /\ ret = TRUE

(* C5: empty() is true if and only if at least one of x, y, z is zero.     *)
C5_Empty ==
    fn = "empty" =>
        ( ~IsZero(ret) <=> \E w \in {args[1].x, args[1].y, args[1].z} : IsZero(w) )

C5_Witness ==
    /\ fn = "empty"
    /\ args = << Dim(5, 0, 5) >>
    /\ ret = ToWord(1, SizeTBytes)

(* C6: dimensionality() is the number of components greater than 1, in     *)
(* 0..3: 0 for (1,1,1), 1 for (5,1,1), 2 for (5,5,1), 3 for (5,5,5).       *)
C6_Dimensionality ==
    fn = "dimensionality" =>
        /\ ret = Cardinality({ axis \in {"x", "y", "z"} :
                                 args[1][axis] \notin {U(0), U(1)} })
        /\ ret \in 0..3
        /\ args[1] = Dim(1, 1, 1) => ret = 0
        /\ args[1] = Dim(5, 1, 1) => ret = 1
        /\ args[1] = Dim(5, 5, 1) => ret = 2
        /\ args[1] = Dim(5, 5, 5) => ret = 3

C6_Witness ==
    /\ fn = "dimensionality"
    /\ args = << Dim(5, 0, 65536) >>
    /\ ret = 2

\* the shared-memory size a construction asks for
RequestedSize(c) ==
    IF c.path = "make_launch_config_default"
    THEN ToWord(0, SharedMemorySizeBytes)
    ELSE c.size

(* C7: two launch configurations are == if and only if their grid          *)
(* dimensions, their block dimensions and their shared-memory sizes are    *)
(* equal, however they were constructed; the size left out is 0.           *)
C7_LaunchConfigurationEq ==
    fn = "launch_configuration_eq" =>
        ( ret <=> /\ \A axis \in {"x", "y", "z"} :
                       /\ args[1].grid[axis] = args[2].grid[axis]
                       /\ args[1].block[axis] = args[2].block[axis]
                  /\ RequestedSize(args[1]) = RequestedSize(args[2]) )

\* make_launch_config(g, b) against the aggregate { g, b, 0 }
C7_Witness ==
    /\ fn = "launch_configuration_eq"
    /\ args[1] = [ path |-> "make_launch_config_default",
                   grid |-> Dim(2, 1, 1), block |-> Dim(1, 2, 1) ]
    /\ args[2] = [ path |-> "aggregate",
                   grid |-> Dim(2, 1, 1), block |-> Dim(1, 2, 1),
                   size |-> ToWord(0, SharedMemorySizeBytes) ]
    /\ ret = TRUE

\* the canonical enumerator an alias stands for
Canonical(name) ==
    CASE name = "none"          -> "no_preference"
      [] name = "equal"         -> "equal_l1_and_shared_memory"
      [] name = "prefer_shared" -> "prefer_shared_memory_over_l1"
      [] name = "prefer_l1"     -> "prefer_l1_over_shared_memory"
      [] name = "sync"          -> "synchronous"
      [] name = "async"         -> "asynchronous"
      [] name = "big_endian"    -> "big"
      [] name = "little_endian" -> "little"
      [] OTHER                  -> name

(* C8: two enumerators of one enumeration have the same underlying value   *)
(* if and only if they are of one alias group: an alias has the value of   *)
(* its canonical enumerator, and different groups have different values.   *)
C8_EnumAliases ==
    fn = "underlying" =>
        ( ret[1] = ret[2] <=> Canonical(args[2]) = Canonical(args[3]) )

\* little follows the alias big_endian: both little and little_endian are 1
C8_Witness ==
    /\ fn = "underlying"
    /\ args = << "endianness_t", "little_endian", "little" >>
    /\ ret = <<1, 1>>

(* C9 as stated: when the product x * y * z is 2^32 or more, volume()      *)
(* returns the product modulo 2^32.                                        *)
C9_VolumeWrapsAt32 ==
    (fn = "volume" /\ ~Fits(ExactProduct(args[1]), UnsignedBytes))
        => ret = Convert(Convert(ExactProduct(args[1]), UnsignedBytes),
                         SizeTBytes)

(* C9 as amended: the multiplications are 64-bit: when the product         *)
(* x * y * z is 2^32 or more, volume() returns the product modulo 2^64,    *)
(* which is the product itself below 2^64.                                 *)
C9_VolumeWrapsAt64 ==
    (fn = "volume" /\ ~Fits(ExactProduct(args[1]), UnsignedBytes))
        => /\ ret = Convert(ExactProduct(args[1]), SizeTBytes)
           /\ Fits(ExactProduct(args[1]), SizeTBytes)
                => Convert(ret, 3 * UnsignedBytes) = ExactProduct(args[1])

\* x = y = z = 0xFFFFFFFF: the product wraps to 3 * 2^32 - 1
C9_Witness ==
    /\ fn = "volume"
    /\ args = << [x |-> UnsignedMax, y |-> UnsignedMax, z |-> UnsignedMax] >>
    /\ ~Fits(ExactProduct(args[1]), SizeTBytes)
    /\ ret = <<255, 255, 255, 255, 2, 0, 0, 0>>

(* C10: the six comparisons agree: != is not ==, <= is < or ==, a > b is   *)
(* b < a, a >= b is b <= a and is not a < b, and == is equality of both    *)
(* fields.                                                                 *)
C10_ComparisonsConsistent ==
    fn = "compare" =>
        /\ ret.ne <=> ~ret.eq
        /\ ret.le <=> (ret.lt \/ ret.eq)
        /\ ret.gt <=> ret.lt_ba
        /\ ret.ge <=> ret.le_ba
        /\ ret.ge <=> ~ret.lt
        /\ ret.eq <=> (args[1].major = args[2].major /\ args[1].minor = args[2].minor)

\* (2, 1) against (2, 0): one field differs
C10_Witness ==
    /\ fn = "compare"
    /\ args = << CC(2, 1), CC(2, 0) >>
    /\ ret.ne /\ ~ret.eq /\ ret.gt /\ ret.ge /\ ~ret.lt /\ ~ret.le /\ ret.lt_ba

====
